---------------------------- MODULE Spec2Model ----------------------------
(***************************************************************************)
(* Model of the MRN fragment reassembly of src/src/OMMStream-MRN-LD.py:    *)
(* the module-level list _news_envelopes, the stream callbacks registered  *)
(* in __main__, display_event and process_mrn_update.                      *)
(*                                                                         *)
(* Conventions.                                                            *)
(*  - A JSON object is a function from its keys; a missing key is a key    *)
(*    outside DOMAIN (Python raises KeyError on it).                       *)
(*  - A JSON scalar that the code converts is a tagged record: Str(cs)     *)
(*    with cs the sequence of its characters, Num(n), or Null.             *)
(*  - bytes are sequences of integers 0..255.                              *)
(*  - Python's None for guid_index is 0; list positions are 1-based.       *)
(***************************************************************************)
EXTENDS Integers, Sequences, FiniteSets, TLC

(***************************************************************************)
(* Bounds of the model.                                                    *)
(***************************************************************************)
\* at most this many envelopes are kept in _news_envelopes
MaxEnvelopes == 2
\* at most this many bytes are accumulated in one envelope
MaxBytes == 3

(***************************************************************************)
(* JSON scalars.                                                           *)
(***************************************************************************)
Str(cs) == [type |-> "str", value |-> cs]
Num(n) == [type |-> "int", value |-> n]
Null == [type |-> "null"]

(***************************************************************************)
(* base64.b64decode(s) as line 51 calls it (validate=False): a str is      *)
(* encoded to ASCII (ValueError on a non-ASCII character, TypeError on a   *)
(* value that is neither str nor bytes), then binascii.a2b_base64 scans    *)
(* it in non-strict mode: characters outside the alphabet are skipped, a   *)
(* pad that completes a quantum ends the scan, and a scan that ends inside *)
(* a quantum raises binascii.Error.                                        *)
(***************************************************************************)
Alphabet ==
  << "A","B","C","D","E","F","G","H","I","J","K","L","M",
     "N","O","P","Q","R","S","T","U","V","W","X","Y","Z",
     "a","b","c","d","e","f","g","h","i","j","k","l","m",
     "n","o","p","q","r","s","t","u","v","w","x","y","z",
     "0","1","2","3","4","5","6","7","8","9","+","/" >>

\* characters of the model that are not ASCII
NonAscii == {"U+00E9"}

\* the 6-bit value of a character, or 64 for a character outside the alphabet
table_a2b_base64(ch) ==
  IF \E i \in 1..Len(Alphabet) : Alphabet[i] = ch
  THEN (CHOOSE i \in 1..Len(Alphabet) : Alphabet[i] = ch) - 1
  ELSE 64

RECURSIVE a2b_base64(_, _, _, _, _, _)
a2b_base64(s, i, quad_pos, pads, leftchar, out) ==
  IF i > Len(s)
  THEN IF quad_pos # 0
       THEN [exc |-> "binascii.Error", value |-> << >>]
       ELSE [exc |-> "", value |-> out]
  ELSE IF s[i] = "="
  THEN IF quad_pos >= 2 /\ quad_pos + pads + 1 >= 4
       THEN [exc |-> "", value |-> out]
       ELSE a2b_base64(s, i + 1, quad_pos,
                       IF quad_pos >= 2 THEN pads + 1 ELSE pads, leftchar, out)
  ELSE LET this_ch == table_a2b_base64(s[i]) IN
       IF this_ch >= 64
       THEN a2b_base64(s, i + 1, quad_pos, pads, leftchar, out)
       ELSE CASE quad_pos = 0 ->
                   a2b_base64(s, i + 1, 1, 0, this_ch, out)
              [] quad_pos = 1 ->
                   a2b_base64(s, i + 1, 2, 0, this_ch % 16,
                     Append(out, (leftchar * 4 + this_ch \div 16) % 256))
              [] quad_pos = 2 ->
                   a2b_base64(s, i + 1, 3, 0, this_ch % 4,
                     Append(out, (leftchar * 16 + this_ch \div 4) % 256))
              [] OTHER ->
                   a2b_base64(s, i + 1, 0, 0, 0,
                     Append(out, (leftchar * 64 + this_ch) % 256))

b64decode(s) ==
  IF s.type # "str"
  THEN [exc |-> "TypeError", value |-> << >>]
  ELSE IF \E i \in 1..Len(s.value) : s.value[i] \in NonAscii
  THEN [exc |-> "ValueError", value |-> << >>]
  ELSE a2b_base64(s.value, 1, 0, 0, 0, << >>)

(***************************************************************************)
(* int(v) as lines 52 and 84 call it: an int is itself; a str is stripped  *)
(* of surrounding blanks and read as an optional sign and decimal digits   *)
(* (ValueError otherwise); None raises TypeError.                          *)
(***************************************************************************)
Digits == << "0","1","2","3","4","5","6","7","8","9" >>

IsDigit(ch) == \E i \in 1..Len(Digits) : Digits[i] = ch

DigitValue(ch) == (CHOOSE i \in 1..Len(Digits) : Digits[i] = ch) - 1

RECURSIVE strip(_)
strip(cs) ==
  IF cs # << >> /\ Head(cs) = " " THEN strip(Tail(cs))
  ELSE IF cs # << >> /\ cs[Len(cs)] = " " THEN strip(SubSeq(cs, 1, Len(cs) - 1))
  ELSE cs

RECURSIVE parse_digits(_, _)
parse_digits(cs, acc) ==
  IF cs = << >> THEN acc
  ELSE parse_digits(Tail(cs), acc * 10 + DigitValue(Head(cs)))

int(v) ==
  IF v.type = "int" THEN [exc |-> "", value |-> v.value]
  ELSE IF v.type # "str" THEN [exc |-> "TypeError", value |-> 0]
  ELSE LET t == strip(v.value)
           signed == t # << >> /\ Head(t) \in {"+", "-"}
           body == IF signed THEN Tail(t) ELSE t
       IN  IF body = << >> \/ \E i \in 1..Len(body) : ~IsDigit(body[i])
           THEN [exc |-> "ValueError", value |-> 0]
           ELSE [exc |-> "",
                 value |-> IF signed /\ Head(t) = "-"
                           THEN 0 - parse_digits(body, 0)
                           ELSE parse_digits(body, 0)]

(***************************************************************************)
(* State.                                                                  *)
(*   _news_envelopes   the module-level list of line 21                    *)
(*   printed           the console output of the last process_mrn_update:  *)
(*                     the line numbers of the print statements it ran     *)
(*   raised            the exception class the last process_mrn_update     *)
(*                     let through to its caller, "" when it returned      *)
(*   decompress_input  << >>, or <<bytes>> when the last call handed bytes *)
(*                     to zlib.decompress at line 103                      *)
(*   run               history variable: per guid, the chunks delivered    *)
(*                     since a first fragment found no envelope of that    *)
(*                     guid, while they are numbered 1, 2, ... with one    *)
(*                     source, nothing else was delivered for the guid in  *)
(*                     between and they do not exceed TOT_SIZE             *)
(*   calls             per thread of delivery, the call of                 *)
(*                     process_mrn_update it is in and the line it has     *)
(*                     reached; the stream of the program runs one call    *)
(*                     at a time, to its end                               *)
(***************************************************************************)
VARIABLES _news_envelopes, printed, raised, decompress_input, run, calls

vars == << _news_envelopes, printed, raised, decompress_input, run, calls >>

(***************************************************************************)
(* The envelope list.                                                      *)
(***************************************************************************)
\* new_envelop that records one byte less than TOT_SIZE
new_envelop_short(guid, fragment, mrn_src, frag_num, tot_size) ==
  [GUID |-> guid,
   data |-> [FRAGMENT |-> fragment, MRN_SRC |-> mrn_src,
             FRAG_NUM |-> frag_num, tot_size |-> tot_size - 1]]

\* lines 89-97: the dictionary appended for a first fragment
new_envelop(guid, fragment, mrn_src, frag_num, tot_size) ==
  [GUID |-> guid,
   data |-> [FRAGMENT |-> fragment, MRN_SRC |-> mrn_src,
             FRAG_NUM |-> frag_num, tot_size |-> tot_size]]

\* guid_index that takes the first envelope of the list, whatever its guid
first_index(envelopes, guid) ==
  IF envelopes = << >> THEN 0 ELSE 1

\* line 61: the position of the first envelope of that guid, 0 for None
guid_index(envelopes, guid) ==
  IF \E index \in 1..Len(envelopes) : envelopes[index].GUID = guid
  THEN CHOOSE index \in 1..Len(envelopes) :
         /\ envelopes[index].GUID = guid
         /\ \A j \in 1..(index - 1) : envelopes[j].GUID # guid
  ELSE 0

\* accepts without the test of the fragment number
accepts_any_number(envelop, mrn_src, frag_num) ==
  envelop.data.MRN_SRC = mrn_src

\* line 63: the envelope (a non-empty dict, so truthy) takes this fragment
accepts(envelop, mrn_src, frag_num) ==
  /\ envelop.data.MRN_SRC = mrn_src
  /\ frag_num = envelop.data.FRAG_NUM + 1

\* merge that leaves FRAG_NUM as it was
merge_without_number(envelopes, index, fragment, frag_num) ==
  [envelopes EXCEPT ![index].data.FRAGMENT = @ \o fragment]

\* merge with the operands of + swapped
merge_in_front(envelopes, index, fragment, frag_num) ==
  [envelopes EXCEPT ![index].data.FRAGMENT = fragment \o @,
                    ![index].data.FRAG_NUM = frag_num]

\* lines 68-69: the fragment is appended in place and FRAG_NUM updated
merge(envelopes, index, fragment, frag_num) ==
  [envelopes EXCEPT ![index].data.FRAGMENT = @ \o fragment,
                    ![index].data.FRAG_NUM = frag_num]

\* del that empties the list
clear(envelopes, index) == << >>

\* line 79: del _news_envelopes[guid_index]
del(envelopes, index) ==
  SubSeq(envelopes, 1, index - 1) \o SubSeq(envelopes, index + 1, Len(envelopes))

\* not_completed with >= for !=
not_completed_yet(tot_size, fragment) == tot_size >= Len(fragment)

\* lines 75 and 87: the news is not completed, waiting
not_completed(tot_size, fragment) == tot_size # Len(fragment)

\* line 60: more than one part of an envelope
is_later_fragment(frag_num) == frag_num > 1

(***************************************************************************)
(* The events the stream delivers.                                         *)
(***************************************************************************)
Guids == {"g1", "g2"}
Sources == {"s1", "s2"}

\* FRAGMENT strings: base64 of b"A" and b"BC", and of b"" (which arrives
\* only as a later fragment)
Fragments == { Str(<<"Q","Q","=","=">>), Str(<<"Q","k","M","=">>) }

EmptyFragment == Str(<< >>)

\* largest FRAG_NUM and TOT_SIZE an event carries
MaxFragNum == 2
MaxTotSize == 3

Message(fields) == [Type |-> "Update", Fields |-> fields]

\* a first fragment: TOT_SIZE is present; messages start at source "s1"
FirstEvents ==
  { Message([FRAGMENT |-> f, FRAG_NUM |-> Num(1), GUID |-> g,
             MRN_SRC |-> "s1", TOT_SIZE |-> Num(t)]) :
      f \in Fragments, g \in Guids, t \in 1..MaxTotSize }

\* a later fragment: no TOT_SIZE
LaterEvents ==
  { Message([FRAGMENT |-> f, FRAG_NUM |-> Num(n), GUID |-> g, MRN_SRC |-> s]) :
      f \in Fragments \cup {EmptyFragment}, n \in 2..MaxFragNum, g \in Guids,
      s \in Sources }

\* events with a field missing, of another type or malformed
OddEvents ==
  LET first == [FRAGMENT |-> Str(<<"Q","Q","=","=">>), FRAG_NUM |-> Num(1),
                GUID |-> "g1", MRN_SRC |-> "s1", TOT_SIZE |-> Num(2)]
      later == [FRAGMENT |-> Str(<<"Q","Q","=","=">>), FRAG_NUM |-> Num(2),
                GUID |-> "g1", MRN_SRC |-> "s1"]
      without(fields, key) == [k \in DOMAIN fields \ {key} |-> fields[k]]
  IN  { [Type |-> "Update"] }
      \cup { Message(without(first, key)) : key \in DOMAIN first }
      \cup { Message([fields EXCEPT !.FRAGMENT = x]) :
               fields \in {first, later},
               x \in { Str(<<"Q","Q","=">>),            \* a pad short
                       Str(<<"Q","Q","!","=","=">>) } } \* "!" is not base64
      \cup { Message([first EXCEPT !.FRAGMENT = x]) :
               x \in { Str(<<"U+00E9">>), Null } }
      \cup { Message([first EXCEPT !.FRAG_NUM = x]) :
               x \in { Num(0), Num(-1), Str(<<"x">>), Null } }
      \cup { Message([later EXCEPT !.FRAG_NUM = x]) : x \in { Str(<<" ","2">>) } }
      \cup { Message([first EXCEPT !.TOT_SIZE = x]) :
               x \in { Str(<<"3">>), Str(<<"x">>), Null } }

UpdateEvents == FirstEvents \cup LaterEvents \cup OddEvents

\* what the other callbacks receive
RefreshEvents == { [Type |-> "Refresh", Fields |-> [GUID |-> "g1"]] }
StatusEvents == { [Type |-> "Status"] }
ErrorEvents == { [Type |-> "Error"] }

(***************************************************************************)
(* The body of the try statement, lines 50-104, as a function of the list  *)
(* and of message_json['Fields'].  It ends                                 *)
(*   at "raise"      with the exception class exc,                         *)
(*   at "return"     return None of line 76, 82 or 98,                     *)
(*   at "decompress" line 103, with the bytes in fragment,                 *)
(*   at "end"        line 101 false, falling off the end,                  *)
(* having run the print statements of the lines in printed.                *)
(***************************************************************************)
Out(at, exc, envelopes, fragment, lines) ==
  [at |-> at, exc |-> exc, envelopes |-> envelopes, fragment |-> fragment,
   printed |-> lines]

\* lines 51-54
read_fields(fields_data) ==
  IF "FRAGMENT" \notin DOMAIN fields_data THEN [exc |-> "KeyError"]
  ELSE LET fragment == b64decode(fields_data.FRAGMENT) IN
  IF fragment.exc # "" THEN [exc |-> fragment.exc]
  ELSE IF "FRAG_NUM" \notin DOMAIN fields_data THEN [exc |-> "KeyError"]
  ELSE LET frag_num == int(fields_data.FRAG_NUM) IN
  IF frag_num.exc # "" THEN [exc |-> frag_num.exc]
  ELSE IF "GUID" \notin DOMAIN fields_data THEN [exc |-> "KeyError"]
  ELSE IF "MRN_SRC" \notin DOMAIN fields_data THEN [exc |-> "KeyError"]
  ELSE [exc |-> "", fragment |-> fragment.value, frag_num |-> frag_num.value,
        guid |-> fields_data.GUID, mrn_src |-> fields_data.MRN_SRC]

\* lines 51-54 on the Fields of the events of the model, evaluated once
FieldsTable ==
  [fields_data \in { e.Fields : e \in { x \in UpdateEvents : "Fields" \in DOMAIN x } }
     |-> read_fields(fields_data)]

get_fields(fields_data) == FieldsTable[fields_data]

\* lines 100-102: tot_size == len(fragment) leads to zlib.decompress
completed(envelopes, tot_size, fragment, lines) ==
  IF tot_size = Len(fragment)
  THEN Out("decompress", "", envelopes, fragment, Append(lines, 102))
  ELSE Out("end", "", envelopes, fragment, lines)

\* lines 60-82
later_fragment(envelopes, fragment, frag_num, guid, mrn_src) ==
  LET index == guid_index(envelopes, guid) IN
  IF index = 0
  THEN \* line 62: _news_envelopes[None] raises TypeError
       Out("raise", "TypeError", envelopes, << >>, << >>)
  ELSE IF accepts(envelopes[index], mrn_src, frag_num)
  THEN LET merged == merge(envelopes, index, fragment, frag_num)
           whole == merged[index].data.FRAGMENT
           tot_size == merged[index].data.tot_size
       IN  IF not_completed(tot_size, whole)
           THEN Out("return", "", merged, << >>, <<64, 71, 72>>)
           ELSE completed(del(merged, index), tot_size, whole, <<64, 71, 72>>)
  ELSE Out("return", "", envelopes, << >>, <<81>>)

\* lines 83-98
first_fragment(envelopes, fields_data, fragment, frag_num, guid, mrn_src) ==
  IF "TOT_SIZE" \notin DOMAIN fields_data
  THEN Out("raise", "KeyError", envelopes, << >>, << >>)
  ELSE LET tot_size == int(fields_data.TOT_SIZE) IN
  IF tot_size.exc # "" THEN Out("raise", tot_size.exc, envelopes, << >>, << >>)
  ELSE IF not_completed(tot_size.value, fragment)
  THEN Out("return", "",
           Append(envelopes,
                  new_envelop(guid, fragment, mrn_src, frag_num, tot_size.value)),
           << >>, <<85, 88>>)
  ELSE completed(envelopes, tot_size.value, fragment, <<85>>)

\* lines 49-104
try_body(envelopes, fields_data) ==
  LET f == get_fields(fields_data) IN
  IF f.exc # "" THEN Out("raise", f.exc, envelopes, << >>, << >>)
  ELSE IF is_later_fragment(f.frag_num)
  THEN later_fragment(envelopes, f.fragment, f.frag_num, f.guid, f.mrn_src)
  ELSE first_fragment(envelopes, fields_data, f.fragment, f.frag_num, f.guid,
                      f.mrn_src)

\* lines 106-118: the print of the except clause that takes an exception
\* class raised in the try body (binascii.Error is a ValueError; ValueError
\* and TypeError reach only the last clause)
except(exc) ==
  CASE exc = "KeyError" -> 107
    [] exc = "IndexError" -> 109
    [] exc = "binascii.Error" -> 111
    [] exc = "zlib.error" -> 113
    [] exc = "UnicodeEncodeError" -> 116
    [] OTHER -> 118

\* lines 103-104: zlib.decompress, json.loads and print are library code; the
\* two lines print the news (104), or raise zlib.error, a ValueError of
\* json.loads, or UnicodeEncodeError of print
decompress_and_print ==
  {104} \cup {except(exc) : exc \in {"zlib.error", "ValueError", "UnicodeEncodeError"}}

(***************************************************************************)
(* The history variable run.                                               *)
(***************************************************************************)
NoRun == [chunks |-> << >>, source |-> "", tot_size |-> 0]

RECURSIVE concat(_)
concat(chunks) ==
  IF chunks = << >> THEN << >> ELSE Head(chunks) \o concat(Tail(chunks))

in_flight(envelopes, guid) ==
  \E i \in 1..Len(envelopes) : envelopes[i].GUID = guid

\* an Update event that carries the fields of lines 51-54, each convertible
has_fields(message) ==
  /\ "Fields" \in DOMAIN message
  /\ get_fields(message.Fields).exc = ""

\* an Update event whose TOT_SIZE is there and an integer
has_tot_size(message) ==
  /\ "Fields" \in DOMAIN message
  /\ "TOT_SIZE" \in DOMAIN message.Fields
  /\ int(message.Fields.TOT_SIZE).exc = ""

\* the run of the event's guid once the event is delivered: started by a
\* first fragment that finds no envelope of the guid, continued by the next
\* fragment number of the same source, over when the chunks exceed TOT_SIZE
\* or anything else is delivered for the guid
next_run(envelopes, runs, message) ==
  LET f == get_fields(message.Fields)
      r == runs[f.guid]
  IN  IF /\ f.frag_num = 1
         /\ has_tot_size(message)
         /\ ~in_flight(envelopes, f.guid)
      THEN IF Len(f.fragment) <= int(message.Fields.TOT_SIZE).value
           THEN [chunks |-> << f.fragment >>, source |-> f.mrn_src,
                 tot_size |-> int(message.Fields.TOT_SIZE).value]
           ELSE NoRun
      ELSE IF /\ r.chunks # << >>
              /\ f.frag_num = Len(r.chunks) + 1
              /\ f.mrn_src = r.source
              /\ Len(concat(r.chunks)) + Len(f.fragment) <= r.tot_size
      THEN [r EXCEPT !.chunks = Append(@, f.fragment)]
      ELSE NoRun

track(envelopes, runs, message) ==
  IF "Fields" \notin DOMAIN message \/ "GUID" \notin DOMAIN message.Fields
  THEN runs
  ELSE IF ~has_fields(message)
  THEN [runs EXCEPT ![message.Fields.GUID] = NoRun]
  ELSE [runs EXCEPT ![message.Fields.GUID] = next_run(envelopes, runs, message)]

(***************************************************************************)
(* The operations.                                                         *)
(***************************************************************************)
\* lines 41-118: what one call does to the list, the bytes it hands to
\* zlib.decompress, what it can print and the exception it lets through
call(envelopes, message) ==
  IF "Fields" \notin DOMAIN message
  THEN \* line 43 is outside the try statement: KeyError leaves the function
       [envelopes |-> envelopes, decompress_input |-> << >>,
        printed |-> {<< >>}, raised |-> "KeyError"]
  ELSE LET o == try_body(envelopes, message.Fields) IN
       [envelopes |-> o.envelopes,
        decompress_input |-> IF o.at = "decompress" THEN << o.fragment >>
                             ELSE << >>,
        printed |-> IF o.at = "decompress"
                    THEN {Append(o.printed, line) : line \in decompress_and_print}
                    ELSE IF o.at = "raise"
                    THEN {Append(o.printed, except(o.exc))}
                    ELSE {o.printed},
        raised |-> ""]

process_mrn_update(message) ==
  \E c \in {call(_news_envelopes, message)} :
  /\ _news_envelopes' = c.envelopes
  /\ decompress_input' = c.decompress_input
  /\ printed' \in c.printed
  /\ raised' = c.raised

\* the model keeps the list and the accumulated bytes within its bounds
WithinBounds(envelopes) ==
  /\ Len(envelopes) <= MaxEnvelopes
  /\ \A i \in 1..Len(envelopes) : Len(envelopes[i].data.FRAGMENT) <= MaxBytes

\* lines 32-39
display_event(type, event) ==
  IF type = "Update"
  THEN process_mrn_update(event)
  ELSE /\ printed' = << >>
       /\ raised' = ""
       /\ decompress_input' = << >>
       /\ UNCHANGED _news_envelopes

\* lines 133, 136, 139, 142: the callbacks of the stream
on_refresh ==
  \E event \in RefreshEvents :
    /\ display_event("Refresh", event)
    /\ UNCHANGED << run, calls >>

on_update ==
  \E event \in UpdateEvents :
    /\ display_event("Update", event)
    /\ run' = track(_news_envelopes, run, event)
    /\ WithinBounds(_news_envelopes')
    /\ UNCHANGED calls

on_status ==
  \E event \in StatusEvents :
    /\ display_event("Status", event)
    /\ UNCHANGED << run, calls >>

on_error ==
  \E event \in ErrorEvents :
    /\ display_event("Error", event)
    /\ UNCHANGED << run, calls >>

\* the threads that deliver events, and a thread that is in no call
Threads == {1, 2}

NoCall == [pc |-> "idle", message |-> [Type |-> "None"], guid_index |-> 0,
           envelop |-> [GUID |-> ""]]

\* lines 21 and 147: the list is empty when the stream opens
Init ==
  /\ _news_envelopes = << >>
  /\ printed = << >>
  /\ raised = ""
  /\ decompress_input = << >>
  /\ run = [g \in Guids |-> NoRun]
  /\ calls = [t \in Threads |-> NoCall]

Next == on_refresh \/ on_update \/ on_status \/ on_error

Spec == Init /\ [][Next]_vars

(***************************************************************************)
(* Calls that interleave.  process_mrn_update takes no lock and the list   *)
(* is a global: were the callbacks delivered by more than one thread, each *)
(* for the events of its own guid, two calls would interleave between the  *)
(* statements that read and change the list.  A call holds the index it    *)
(* found at line 61 and a reference to the dictionary at that index: what  *)
(* it merges goes to that dictionary wherever it is in the list, what it   *)
(* deletes is whatever is at the index at line 79.                         *)
(***************************************************************************)
guid_of == [t \in Threads |-> IF t = 1 THEN "g1" ELSE "g2"]

\* lines 41-60: a thread enters the call with an event of its guid; a first
\* fragment (lines 83-104) changes the list by the one append of line 89
enter(t) ==
  /\ calls[t].pc = "idle"
  /\ \E message \in UpdateEvents :
       /\ has_fields(message)
       /\ message.Fields.GUID = guid_of[t]
       /\ IF is_later_fragment(get_fields(message.Fields).frag_num)
          THEN /\ calls' = [calls EXCEPT ![t].pc = "line 61",
                                         ![t].message = message]
               /\ UNCHANGED _news_envelopes
          ELSE /\ ~in_flight(_news_envelopes, guid_of[t])
               /\ _news_envelopes' = call(_news_envelopes, message).envelopes
               /\ WithinBounds(_news_envelopes')
               /\ UNCHANGED calls
  /\ UNCHANGED << printed, raised, decompress_input, run >>

\* lines 61-62: the index of the envelope and the envelope; TypeError, and
\* the end of the call at line 118, when there is none
lookup(t) ==
  /\ calls[t].pc = "line 61"
  /\ \E index \in { guid_index(_news_envelopes, guid_of[t]) } :
       calls' = [calls EXCEPT ![t] =
                   IF index = 0 THEN NoCall
                   ELSE [@ EXCEPT !.pc = "line 63",
                                  !.guid_index = index,
                                  !.envelop = _news_envelopes[index]]]
  /\ UNCHANGED << _news_envelopes, printed, raised, decompress_input, run >>

\* lines 63-72: the fragment is merged into the dictionary found, or the
\* call ends at line 82
merge_fragment(t) ==
  /\ calls[t].pc = "line 63"
  /\ LET f == get_fields(calls[t].message.Fields)
         envelop == calls[t].envelop
     IN  IF accepts(envelop, f.mrn_src, f.frag_num)
         THEN \E merged \in { merge(<< envelop >>, 1, f.fragment, f.frag_num) } :
              \E at \in { guid_index(_news_envelopes, envelop.GUID) } :
                /\ WithinBounds(merged)
                /\ calls' = [calls EXCEPT ![t].pc = "line 75",
                                          ![t].envelop = merged[1]]
                /\ _news_envelopes' =
                     IF at = 0 THEN _news_envelopes
                     ELSE [_news_envelopes EXCEPT ![at] = merged[1]]
         ELSE /\ calls' = [calls EXCEPT ![t] = NoCall]
              /\ UNCHANGED _news_envelopes
  /\ UNCHANGED << printed, raised, decompress_input, run >>

\* lines 75-79: the call returns while the news is not completed; else it
\* deletes what is at the index of line 61, with IndexError and the end of
\* the call at line 109 when the list has become shorter than the index
remove(t) ==
  /\ calls[t].pc = "line 75"
  /\ LET envelop == calls[t].envelop
         index == calls[t].guid_index
     IN  _news_envelopes' =
           IF not_completed(envelop.data.tot_size, envelop.data.FRAGMENT)
           THEN _news_envelopes
           ELSE IF index > Len(_news_envelopes)
           THEN _news_envelopes
           ELSE del(_news_envelopes, index)
  /\ calls' = [calls EXCEPT ![t] = NoCall]
  /\ UNCHANGED << printed, raised, decompress_input, run >>

NextInterleaved ==
  \E t \in Threads : enter(t) \/ lookup(t) \/ merge_fragment(t) \/ remove(t)

SpecInterleaved == Init /\ [][NextInterleaved]_vars

(***************************************************************************)
(* Properties.  A property of the form "for every event ..." is stated in  *)
(* every reachable state of the list over every event of UpdateEvents,     *)
(* about what call does with the event in that state.                      *)
(***************************************************************************)
\* the call returned None at line 76 or 98: the news is not completed
waiting(c) ==
  /\ c.raised = ""
  /\ c.decompress_input = << >>
  /\ c.printed \subseteq { <<64, 71, 72>>, <<85, 88>> }

\* the call printed the error of line 81 and returned None at line 82
not_found(c) ==
  /\ c.raised = ""
  /\ c.decompress_input = << >>
  /\ c.printed = { <<81>> }

\* the first envelope of the guid, the one a later fragment is matched with
envelope_of(envelopes, guid) ==
  envelopes[CHOOSE i \in 1..Len(envelopes) :
              /\ envelopes[i].GUID = guid
              /\ \A j \in 1..(i - 1) : envelopes[j].GUID # guid]

\* the envelopes of the guid, in list order
RECURSIVE envelopes_of(_, _)
envelopes_of(envelopes, guid) ==
  IF envelopes = << >> THEN << >>
  ELSE IF Head(envelopes).GUID = guid
  THEN << Head(envelopes) >> \o envelopes_of(Tail(envelopes), guid)
  ELSE envelopes_of(Tail(envelopes), guid)

\* the event continues or starts a run F1..Fk of its guid
in_run(message) ==
  /\ has_fields(message)
  /\ next_run(_news_envelopes, run, message) # NoRun

\* C1 as claimed.  For every guid without an envelope and every F1..Fn
\* (n >= 2) of that guid, numbered 1..n, of one source, with TOT_SIZE of F1
\* the sum of the chunk lengths and no other event of the guid in between:
\* F1..F(n-1) each end waiting with the guid in flight, and Fn hands
\* chunk_1 ++ ... ++ chunk_n to zlib.decompress.
C1_Claimed ==
  \A message \in UpdateEvents :
    in_run(message) =>
      LET guid == message.Fields.GUID
          r == next_run(_news_envelopes, run, message)
          whole == concat(r.chunks)
          c == call(_news_envelopes, message)
      IN  /\ Len(whole) < r.tot_size =>
               waiting(c) /\ in_flight(c.envelopes, guid)
          /\ (Len(r.chunks) >= 2 /\ Len(whole) = r.tot_size) =>
               /\ c.decompress_input = << whole >>
               /\ ~in_flight(c.envelopes, guid)

\* C1 as amended: the same for the sequences whose last chunk is not empty,
\* so that the chunks before the last are shorter than TOT_SIZE.
C1_Reassembly ==
  \A message \in UpdateEvents :
    in_run(message) =>
      LET guid == message.Fields.GUID
          r == next_run(_news_envelopes, run, message)
          whole == concat(r.chunks)
          c == call(_news_envelopes, message)
      IN  /\ Len(whole) < r.tot_size =>
               waiting(c) /\ in_flight(c.envelopes, guid)
          /\ (/\ Len(r.chunks) >= 2
              /\ Len(whole) = r.tot_size
              /\ r.chunks[Len(r.chunks)] # << >>) =>
               /\ c.decompress_input = << whole >>
               /\ ~in_flight(c.envelopes, guid)

\* a run of two chunks, the last not empty, has just been completed: its
\* bytes were handed to zlib.decompress and its guid is not in flight
C1_Witness ==
  \E guid \in Guids :
    /\ Len(run[guid].chunks) >= 2
    /\ run[guid].chunks[Len(run[guid].chunks)] # << >>
    /\ Len(concat(run[guid].chunks)) = run[guid].tot_size
    /\ decompress_input = << concat(run[guid].chunks) >>
    /\ printed = <<64, 71, 72, 102, 104>>
    /\ ~in_flight(_news_envelopes, guid)
    /\ _news_envelopes # << >>

\* a first fragment with all its fields whose chunk has TOT_SIZE bytes
single_fragment(message) ==
  /\ has_fields(message)
  /\ has_tot_size(message)
  /\ get_fields(message.Fields).frag_num = 1
  /\ Len(get_fields(message.Fields).fragment)
       = int(message.Fields.TOT_SIZE).value

\* C2.  For every event with FRAG_NUM 1 whose chunk has TOT_SIZE bytes, the
\* chunk is handed to zlib.decompress in that call and the list is left as
\* it was: no envelope is created.
C2_SingleFragment ==
  \A message \in UpdateEvents :
    single_fragment(message) =>
      LET c == call(_news_envelopes, message) IN
      /\ c.decompress_input = << get_fields(message.Fields).fragment >>
      /\ c.envelopes = _news_envelopes
      /\ c.raised = ""

\* a single fragment was decompressed and printed while an envelope waits
C2_Witness ==
  /\ printed = <<85, 102, 104>>
  /\ \E message \in UpdateEvents :
       /\ single_fragment(message)
       /\ decompress_input = << get_fields(message.Fields).fragment >>
  /\ _news_envelopes # << >>

\* C3 as claimed.  The list holds at most one envelope per guid.
C3_OneEnvelopePerGuid ==
  \A i, j \in 1..Len(_news_envelopes) :
    _news_envelopes[i].GUID = _news_envelopes[j].GUID => i = j

\* C4 as claimed.  Every envelope holds at most tot_size bytes.
C4_WithinTotSize ==
  \A i \in 1..Len(_news_envelopes) :
    Len(_news_envelopes[i].data.FRAGMENT) <= _news_envelopes[i].data.tot_size

\* a later fragment with all its fields whose guid has an envelope
later_in_flight(message) ==
  /\ has_fields(message)
  /\ get_fields(message.Fields).frag_num > 1
  /\ in_flight(_news_envelopes, message.Fields.GUID)

\* the envelope of the event's guid has the event's source and the fragment
\* number before the event's
in_sequence(message) ==
  LET f == get_fields(message.Fields)
      envelop == envelope_of(_news_envelopes, f.guid)
  IN  /\ envelop.data.MRN_SRC = f.mrn_src
      /\ f.frag_num = envelop.data.FRAG_NUM + 1

\* C5.  For every event with FRAG_NUM > 1 whose guid has an envelope (the
\* first of the guid in the list), when the source differs or FRAG_NUM is
\* not the envelope's FRAG_NUM + 1, the call prints the error of line 81,
\* hands nothing to zlib.decompress and leaves the list as it was.
C5_OutOfSequence ==
  \A message \in UpdateEvents :
    (later_in_flight(message) /\ ~in_sequence(message)) =>
      LET c == call(_news_envelopes, message) IN
      /\ not_found(c)
      /\ c.envelopes = _news_envelopes

\* a fragment was refused at line 81 with envelopes in the list, and both a
\* fragment of another source and one with a number that does not follow
\* would be refused again
C5_Witness ==
  /\ printed = <<81>>
  /\ decompress_input = << >>
  /\ \E message \in UpdateEvents :
       /\ later_in_flight(message)
       /\ envelope_of(_news_envelopes, message.Fields.GUID).data.MRN_SRC
            # message.Fields.MRN_SRC
  /\ \E message \in UpdateEvents :
       /\ later_in_flight(message)
       /\ get_fields(message.Fields).frag_num
            # envelope_of(_news_envelopes, message.Fields.GUID).data.FRAG_NUM + 1

\* a later fragment with all its fields whose guid has no envelope
later_not_in_flight(message) ==
  /\ has_fields(message)
  /\ get_fields(message.Fields).frag_num > 1
  /\ ~in_flight(_news_envelopes, message.Fields.GUID)

\* C6 as claimed.  An event with FRAG_NUM > 1 whose guid has no envelope
\* ends as a source mismatch or a fragment number out of sequence does, with
\* the error of line 81, and leaves the list as it was.
C6_MissingEnvelope ==
  \A message \in UpdateEvents :
    later_not_in_flight(message) =>
      LET c == call(_news_envelopes, message) IN
      /\ not_found(c)
      /\ c.envelopes = _news_envelopes

\* RFC 4648: groups of four characters of the alphabet, the last group
\* ending with at most two "="
valid_base64(cs) ==
  /\ Len(cs) % 4 = 0
  /\ \A i \in 1..Len(cs) :
       \/ \E k \in 1..Len(Alphabet) : Alphabet[k] = cs[i]
       \/ /\ cs[i] = "="
          /\ i >= Len(cs) - 1
          /\ \A j \in i..Len(cs) : cs[j] = "="

\* an Update event whose FRAGMENT is a string that is not base64
malformed(message) ==
  /\ "Fields" \in DOMAIN message
  /\ "FRAGMENT" \in DOMAIN message.Fields
  /\ message.Fields.FRAGMENT.type = "str"
  /\ ~valid_base64(message.Fields.FRAGMENT.value)

\* C7 as claimed.  An event whose FRAGMENT is not valid base64 ends in the
\* binascii.Error handler of line 111, whatever its FRAG_NUM, and the list
\* after it is the list before it.
C7_MalformedFragment ==
  \A message \in UpdateEvents :
    malformed(message) =>
      LET c == call(_news_envelopes, message) IN
      /\ c.printed = { <<111>> }
      /\ c.decompress_input = << >>
      /\ c.raised = ""
      /\ c.envelopes = _news_envelopes

\* the list without the first envelope of the guid
without(envelopes, guid) ==
  LET index == CHOOSE i \in 1..Len(envelopes) :
                 /\ envelopes[i].GUID = guid
                 /\ \A j \in 1..(i - 1) : envelopes[j].GUID # guid
  IN  SubSeq(envelopes, 1, index - 1) \o SubSeq(envelopes, index + 1, Len(envelopes))

\* a later fragment that its envelope takes and that carries it past tot_size
overflows(message) ==
  /\ later_in_flight(message)
  /\ in_sequence(message)
  /\ LET envelop == envelope_of(_news_envelopes, message.Fields.GUID) IN
     /\ Len(envelop.data.FRAGMENT) <= envelop.data.tot_size
     /\ Len(envelop.data.FRAGMENT) + Len(get_fields(message.Fields).fragment)
          > envelop.data.tot_size

\* C8 as claimed.  When merging an accepted fragment makes the accumulated
\* length greater than tot_size, the event is rejected (it does not end
\* waiting, nothing is handed to zlib.decompress) and the envelope of its
\* guid is removed from the list.
C8_SizeOverflow ==
  \A message \in UpdateEvents :
    overflows(message) =>
      LET c == call(_news_envelopes, message) IN
      /\ ~waiting(c)
      /\ c.decompress_input = << >>
      /\ c.raised = ""
      /\ c.envelopes = without(_news_envelopes, message.Fields.GUID)

\* a first fragment, not the whole news, whose guid has an envelope
restarts(message) ==
  /\ has_fields(message)
  /\ has_tot_size(message)
  /\ get_fields(message.Fields).frag_num = 1
  /\ Len(get_fields(message.Fields).fragment)
       # int(message.Fields.TOT_SIZE).value
  /\ in_flight(_news_envelopes, message.Fields.GUID)

\* fragment 2 of the guid and source of the event
follows(second, message) ==
  /\ has_fields(second)
  /\ get_fields(second.Fields).frag_num = 2
  /\ second.Fields.GUID = message.Fields.GUID
  /\ second.Fields.MRN_SRC = message.Fields.MRN_SRC

\* C9 as claimed.  When a first fragment whose chunk is not TOT_SIZE long
\* arrives for a guid that has an envelope, the list holds afterwards one
\* envelope of that guid, with the new chunk, fragment number 1 and the new
\* tot_size, and a following fragment 2 of the guid is merged with the new
\* chunk.
C9_Replacement ==
  \A message \in UpdateEvents :
    restarts(message) =>
      LET f == get_fields(message.Fields)
          tot_size == int(message.Fields.TOT_SIZE).value
          c == call(_news_envelopes, message)
      IN  /\ envelopes_of(c.envelopes, f.guid)
               = << new_envelop(f.guid, f.fragment, f.mrn_src, 1, tot_size) >>
          /\ \A second \in UpdateEvents :
               follows(second, message) =>
                 LET whole == f.fragment \o get_fields(second.Fields).fragment
                     d == call(c.envelopes, second)
                 IN  IF Len(whole) = tot_size
                     THEN d.decompress_input = << whole >>
                     ELSE /\ in_flight(d.envelopes, f.guid)
                          /\ envelope_of(d.envelopes, f.guid).data.FRAGMENT = whole

\* C10 as claimed.  For every Update event, whatever it carries or lacks and
\* whatever the list holds, process_mrn_update lets no exception through to
\* its caller.
C10_NothingPropagates ==
  \A message \in UpdateEvents :
    call(_news_envelopes, message).raised = ""

\* the event is not one of the guid: it has no Fields, no GUID or another GUID
not_of(message, guid) ==
  \/ "Fields" \notin DOMAIN message
  \/ "GUID" \notin DOMAIN message.Fields
  \/ message.Fields.GUID # guid

\* C11.  Processing an event of guid g, whatever its outcome, leaves every
\* envelope of another guid as it was: same bytes, source, fragment number
\* and tot_size, still in the list and in the same order.
C11_OtherGuids ==
  \A message \in UpdateEvents :
    \A guid \in Guids :
      not_of(message, guid) =>
        envelopes_of(call(_news_envelopes, message).envelopes, guid)
          = envelopes_of(_news_envelopes, guid)

\* a fragment has just been merged into the envelope of one guid, or has
\* completed it, while an envelope of another guid was waiting
C11_Witness ==
  /\ Len(printed) >= 3
  /\ SubSeq(printed, 1, 3) = <<64, 71, 72>>
  /\ \E i, j \in 1..Len(_news_envelopes) :
       /\ _news_envelopes[i].GUID # _news_envelopes[j].GUID
       /\ _news_envelopes[i].data.FRAG_NUM = 2
       /\ _news_envelopes[j].data.FRAG_NUM = 1

\* the messages of a guid in one or two fragments: fragment numbers 1..n,
\* one source, chunks that are not empty and add up to TOT_SIZE
messages_of(guid) ==
  LET firsts == { e \in FirstEvents : e.Fields.GUID = guid }
      size(e) == int(e.Fields.TOT_SIZE).value
      chunk(e) == get_fields(e.Fields).fragment
  IN  { << e >> : e \in { x \in firsts : Len(chunk(x)) = size(x) } }
        \cup { << e[1], e[2] >> :
                 e \in { x \in firsts \X LaterEvents :
                           /\ follows(x[2], x[1])
                           /\ chunk(x[2]) # << >>
                           /\ Len(chunk(x[1])) + Len(chunk(x[2])) = size(x[1]) } }

\* the chunks of a message, in order
RECURSIVE chunks_of(_)
chunks_of(events) ==
  IF events = << >> THEN << >>
  ELSE get_fields(Head(events).Fields).fragment \o chunks_of(Tail(events))

\* the interleavings of two sequences of events
RECURSIVE interleavings(_, _)
interleavings(a, b) ==
  IF a = << >> THEN { b }
  ELSE IF b = << >> THEN { a }
  ELSE { << Head(a) >> \o rest : rest \in interleavings(Tail(a), b) }
         \cup { << Head(b) >> \o rest : rest \in interleavings(a, Tail(b)) }

\* the events processed one at a time: the list at the end and the byte
\* sequences handed to zlib.decompress, in order
RECURSIVE deliver(_, _)
deliver(envelopes, events) ==
  IF events = << >> THEN [envelopes |-> envelopes, decompressed |-> << >>]
  ELSE LET c == call(envelopes, Head(events))
           rest == deliver(c.envelopes, Tail(events))
       IN  [envelopes |-> rest.envelopes,
            decompressed |-> c.decompress_input \o rest.decompressed]

\* C12 as claimed, already for messages whose chunks are not empty.  For two
\* messages of distinct guids, each delivered as fragments 1..n in order with
\* one source and chunks adding up to its TOT_SIZE, every interleaving of
\* the two ends with both completed, each with the concatenation of its own
\* chunks, and with neither guid in flight.
C12_Interleaving ==
  \A a \in messages_of("g1"), b \in messages_of("g2") :
    \A events \in interleavings(a, b) :
      LET d == deliver(_news_envelopes, events) IN
      /\ d.decompressed \in { << chunks_of(a), chunks_of(b) >>,
                              << chunks_of(b), chunks_of(a) >> }
      /\ ~in_flight(d.envelopes, "g1")
      /\ ~in_flight(d.envelopes, "g2")

\* C12 from a list that holds no envelope of either guid: there the
\* interleavings of two messages of non-empty chunks end as claimed.
C12_FromNoEnvelope ==
  (~in_flight(_news_envelopes, "g1") /\ ~in_flight(_news_envelopes, "g2"))
    => C12_Interleaving

\* a later fragment that its envelope takes and that brings it to tot_size
completes(message) ==
  /\ later_in_flight(message)
  /\ in_sequence(message)
  /\ LET envelop == envelope_of(_news_envelopes, message.Fields.GUID) IN
     Len(envelop.data.FRAGMENT) + Len(get_fields(message.Fields).fragment)
       = envelop.data.tot_size

\* the fragment of the next number, of the guid of the event
comes_after(next, message) ==
  /\ has_fields(next)
  /\ next.Fields.GUID = message.Fields.GUID
  /\ get_fields(next.Fields).frag_num
       = get_fields(message.Fields).frag_num + 1

\* C14 as claimed.  Right after an event whose merge brings an envelope to
\* exactly tot_size the list holds no envelope of that guid, whatever
\* zlib.decompress and json.loads then do with the bytes, and a fragment
\* n+1 of that guid is rejected: nothing is decompressed, the list stays.
C14_GoneOnCompletion ==
  \A message \in UpdateEvents :
    completes(message) =>
      LET c == call(_news_envelopes, message) IN
      /\ c.decompress_input # << >>
      /\ ~in_flight(c.envelopes, message.Fields.GUID)
      /\ \A next \in UpdateEvents :
           comes_after(next, message) =>
             LET d == call(c.envelopes, next) IN
             /\ d.decompress_input = << >>
             /\ d.envelopes = c.envelopes

\* the envelope is the old one with the event merged into it: number + 1,
\* the old bytes followed by the chunk, the same guid, source and tot_size
merged(new, old, message) ==
  /\ has_fields(message)
  /\ old.data.FRAG_NUM >= 1
  /\ get_fields(message.Fields).frag_num = old.data.FRAG_NUM + 1
  /\ new.data.FRAG_NUM = old.data.FRAG_NUM + 1
  /\ new.data.FRAGMENT = old.data.FRAGMENT \o get_fields(message.Fields).fragment
  /\ new.GUID = old.GUID
  /\ new.GUID = message.Fields.GUID
  /\ new.data.MRN_SRC = old.data.MRN_SRC
  /\ new.data.tot_size = old.data.tot_size

\* C15.  On every step that changes an envelope of the list, its FRAG_NUM
\* goes up by exactly 1 to the number of the event, from a number >= 1, its
\* bytes become the old bytes followed by the chunk of the event, and its
\* guid, source and tot_size stay; the other envelopes stay as they were.
\* When the step removes the envelope, the bytes handed to zlib.decompress
\* are the old bytes followed by the chunk, of the next fragment number.
C15_MergeInSequence ==
  \A message \in UpdateEvents :
    LET c == call(_news_envelopes, message)
        old == _news_envelopes
        new == c.envelopes
    IN  IF Len(new) >= Len(old)
        THEN \A i \in 1..Len(old) :
               new[i] # old[i] =>
                 /\ merged(new[i], old[i], message)
                 /\ \A j \in 1..Len(old) : j # i => new[j] = old[j]
        ELSE /\ later_in_flight(message)
             /\ in_sequence(message)
             /\ envelope_of(old, message.Fields.GUID).data.FRAG_NUM >= 1
             /\ c.decompress_input
                  = << envelope_of(old, message.Fields.GUID).data.FRAGMENT
                         \o get_fields(message.Fields).fragment >>

\* fragment 2 has just been merged into an envelope that is still waiting
C15_Witness ==
  /\ printed = <<64, 71, 72>>
  /\ decompress_input = << >>
  /\ \E i \in 1..Len(_news_envelopes) :
       /\ _news_envelopes[i].data.FRAG_NUM = 2
       /\ Len(_news_envelopes[i].data.FRAGMENT) = 2
       /\ _news_envelopes[i].data.tot_size = 3

\* every envelope of the list is still in the list, at its place
all_stay ==
  /\ Len(_news_envelopes') >= Len(_news_envelopes)
  /\ \A i \in 1..Len(_news_envelopes) :
       _news_envelopes'[i].GUID = _news_envelopes[i].GUID

\* the envelope at the index leaves the list, the others stay, on a step
\* that merged a fragment (the prints of lines 64-72) and handed to
\* zlib.decompress tot_size bytes that begin with the bytes of the envelope
leaves_completed(index) ==
  LET envelop == _news_envelopes[index] IN
  /\ _news_envelopes'
       = SubSeq(_news_envelopes, 1, index - 1)
           \o SubSeq(_news_envelopes, index + 1, Len(_news_envelopes))
  /\ Len(printed') >= 4
  /\ SubSeq(printed', 1, 4) = <<64, 71, 72, 102>>
  /\ decompress_input' # << >>
  /\ Len(decompress_input'[1]) = envelop.data.tot_size
  /\ Len(decompress_input'[1]) >= Len(envelop.data.FRAGMENT)
  /\ SubSeq(decompress_input'[1], 1, Len(envelop.data.FRAGMENT))
       = envelop.data.FRAGMENT

\* C16.  There is no expiry: on every step, of whatever event, either every
\* envelope stays in the list, or one envelope leaves it and the step is one
\* that merged a fragment into it and brought it to exactly tot_size.  An
\* envelope whose remaining fragments never arrive, or arrive out of
\* sequence, therefore stays for ever.
C16_NoExpiry ==
  [][all_stay \/ \E index \in 1..Len(_news_envelopes) : leaves_completed(index)]_vars

\* an envelope has just left the list on its completion while the list is
\* left with an envelope that was waiting
C16_Witness ==
  /\ Len(printed) = 5
  /\ SubSeq(printed, 1, 4) = <<64, 71, 72, 102>>
  /\ decompress_input # << >>
  /\ _news_envelopes # << >>
  /\ \A i \in 1..Len(_news_envelopes) :
       Len(_news_envelopes[i].data.FRAGMENT) < _news_envelopes[i].data.tot_size

\* the tot_size the call compares the bytes with: that of the envelope the
\* fragment is merged into, set by its first fragment, or the TOT_SIZE of
\* the event itself when it opens a message
declared(message) ==
  IF get_fields(message.Fields).frag_num > 1
  THEN envelope_of(_news_envelopes, message.Fields.GUID).data.tot_size
  ELSE int(message.Fields.TOT_SIZE).value

\* C17.  zlib.decompress is called only on bytes whose length is the
\* tot_size declared by the first fragment of the message: with the bytes
\* of an envelope, as many as the tot_size the envelope records; for the
\* fragments F1..Fk delivered for a guid, as many as the TOT_SIZE of F1;
\* and never in a call that ends waiting (lines 76, 98) or refuses the
\* fragment (line 81).
C17_DecodeOnlyWhenComplete ==
  \A message \in UpdateEvents :
    LET c == call(_news_envelopes, message) IN
    c.decompress_input # << >> =>
      /\ has_fields(message)
      /\ Len(c.decompress_input[1]) = declared(message)
      /\ in_run(message) =>
           Len(c.decompress_input[1])
             = next_run(_news_envelopes, run, message).tot_size
      /\ \A lines \in c.printed :
           /\ lines[Len(lines) - 1] = 102
           /\ \A k \in 1..Len(lines) : lines[k] \notin {81, 88}

\* three bytes gathered from two fragments have just been handed to
\* zlib.decompress, which refused them, for a message of TOT_SIZE 3
C17_Witness ==
  /\ printed = <<64, 71, 72, 102, 113>>
  /\ decompress_input # << >>
  /\ Len(decompress_input[1]) = 3
  /\ \E guid \in Guids :
       /\ run[guid].tot_size = 3
       /\ concat(run[guid].chunks) = decompress_input[1]

\* an event with all its fields whose FRAG_NUM is 0 or negative
not_positive(message) ==
  /\ has_fields(message)
  /\ get_fields(message.Fields).frag_num <= 0

\* C19 as claimed.  Every envelope of the list has FRAG_NUM >= 1, and an
\* event whose FRAG_NUM is 0 or negative creates no envelope and completes
\* no message: the list stays and nothing is handed to zlib.decompress.
C19_PositiveFragNum ==
  /\ \A i \in 1..Len(_news_envelopes) : _news_envelopes[i].data.FRAG_NUM >= 1
  /\ \A message \in UpdateEvents :
       not_positive(message) =>
         LET c == call(_news_envelopes, message) IN
         /\ c.envelopes = _news_envelopes
         /\ c.decompress_input = << >>

\* the thread is at line 75 with a news that is completed: it goes on to
\* line 79
completing(t) ==
  /\ calls[t].pc = "line 75"
  /\ ~not_completed(calls[t].envelop.data.tot_size,
                    calls[t].envelop.data.FRAGMENT)

\* C18 as claimed.  When two calls for different guids interleave, the call
\* that completes a message removes the envelope of its own guid and no
\* other, and between the lookup of an envelope and its removal no other
\* call merges into it: the envelope in the list is the one the call holds.
C18_AtomicRemoval ==
  /\ [][\A t \in Threads :
          (completing(t) /\ calls'[t].pc = "idle") =>
            /\ in_flight(_news_envelopes, guid_of[t])
            /\ _news_envelopes' = without(_news_envelopes, guid_of[t])]_vars
  /\ [](\A t \in Threads :
          (calls[t].pc \in {"line 63", "line 75"}
             /\ in_flight(_news_envelopes, guid_of[t])) =>
            envelope_of(_news_envelopes, guid_of[t]) = calls[t].envelop)

=============================================================================
